---- MODULE Spec2Model ----
(***************************************************************************)
(* A model of dfq, the single-process, file based queue of src/queue.go:   *)
(* one file per record, many writers, one reader.                          *)
(*                                                                         *)
(* A directory is modelled by its data files (id -> bytes) and its scratch *)
(* files (random name -> bytes).  File names are modelled as the character *)
(* sequences the code formats and parses, because ioutil.ReadDir returns   *)
(* the entries sorted by file name and synchronizeState depends on the     *)
(* position of an entry in that listing.                                   *)
(*                                                                         *)
(* Sections under a mutex (reader.lock, writer.lock) are single actions.   *)
(* Everything outside a mutex is a step of its own, so that the atomic     *)
(* counter, the notify channel and the file system calls interleave.       *)
(***************************************************************************)
EXTENDS Integers, Sequences, FiniteSets, TLC

\* ---------------------------------------------------------------- bounds
\* Ids are capped: no publish once the write counter has reached MaxId, no
\* commit once the read cursor has reached MaxId.
MaxId == 2
\* Concurrent producers (threads calling Put/Stream).
NumProducers == 2

Queues == {"A", "B"}
\* Record payloads; 0 is the empty (just created) file.
Vals == {1, 2}
Producers == 1..NumProducers
\* The names ioutil.TempFile may draw for "*.temp": the decimal text of a
\* random number.  "0.temp" sorts after "0.data" and before "1.data",
\* "1.temp" after "1.data" and before "2.data".
TempNames == {0, 1}
\* Names ending in ".data" whose prefix is no decimal number, as something
\* other than the queue may write them: ".data" sorts before every data file,
\* "x.data" after every data file and scratch file.
JunkNames == {<<46, 100, 97, 116, 97>>, <<120, 46, 100, 97, 116, 97>>}

VARIABLES
    alive,      \* alive[q]: the process holds an open queue on directory q
    data,       \* data[q]: id -> bytes, the files <id>.data of directory q
    temps,      \* temps[q]: name -> bytes, the files <name>.temp of directory q
    cur,        \* q.reader.currentId
    counter,    \* q.writer.counter
    length,     \* q.length
    notify,     \* number of signals buffered in q.notify (capacity 1)
    ppc,        \* ppc[p]: position of producer p inside Stream
    pq,         \* pq[p]: the queue producer p is publishing to
    ptmp,       \* ptmp[p]: the name of p's scratch file
    pres,       \* pres[p]: what p's last Stream returned
    cpc,        \* cpc[q]: position of q's consumer inside Commit
    cpath,      \* cpath[q]: the id of the path Commit is about to remove
    peeked,     \* peeked[q]: what the consumer's last Peek returned
    cres,       \* cres[q]: what the last Commit returned
    published,  \* history: bytes of the records on disk at Open, by id, then of every attach, in attach order
    consumed,   \* history: bytes returned by each Peek that was followed by Commit
    orderly,    \* history: every Commit so far followed a successful Peek
    spc,        \* position of the thread calling Steal
    sq,         \* the queue Steal is called on (the destination)
    sf,         \* the queue Steal takes from (the source)
    spath,      \* "fast": the file was attached directly; "copy": the fallback
    stmp,       \* the name of the fallback's scratch file
    sbytes,     \* the bytes of the record being moved
    scpath,     \* the id of the path the source's Commit is about to remove
    sattached,  \* the destination's Attach has returned nil
    sres,       \* what the last Steal returned
    spre,       \* history: both queues when Steal was called
    junk,       \* junk[q]: names ending in ".data" that something else wrote into directory q
    ores,       \* ores[q]: what the last Open of directory q returned
    wpeeks,     \* history: Peek attempts of the consumer's running Wait
    wpend,      \* history: signals buffered in q.notify when the running Wait was called
    wquiet,     \* history: no notifyUpdate since the running Wait was called
    wfed        \* history: a record was attached since the running Wait was called

vars == <<alive, data, temps, cur, counter, length, notify, ppc, pq, ptmp, pres,
          cpc, cpath, peeked, cres, published, consumed, orderly,
          spc, sq, sf, spath, stmp, sbytes, scpath, sattached, sres, spre,
          junk, ores, wpeeks, wpend, wquiet, wfed>>

qvars == <<alive, data, temps, cur, counter, length, notify>>
pvars == <<ppc, pq, ptmp, pres>>
cvars == <<cpc, cpath, peeked, cres>>
hvars == <<published, consumed, orderly>>
svars == <<spc, sq, sf, spath, stmp, sbytes, scpath, sattached, sres, spre>>
evars == <<junk, ores>>
wvars == <<wpeeks, wpend, wquiet, wfed>>

\* ------------------------------------------------------------ file names
\* ASCII codes of the characters that occur in the file names.
dataSuffix == <<46, 100, 97, 116, 97>>
tempSuffix == <<46, 116, 101, 109, 112>>

RECURSIVE Sprint(_)
\* fmt.Sprint of a non-negative integer: its decimal digits.
Sprint(n) == IF n < 10 THEN <<48 + n>> ELSE Sprint(n \div 10) \o <<48 + (n % 10)>>

DataName(id) == Sprint(id) \o dataSuffix
TempName(n) == Sprint(n) \o tempSuffix

HasSuffix(name, suffix) ==
    /\ Len(name) >= Len(suffix)
    /\ SubSeq(name, Len(name) - Len(suffix) + 1, Len(name)) = suffix

IsDigit(c) == c >= 48 /\ c <= 57

RECURSIVE ParseDigits(_, _)
ParseDigits(s, acc) ==
    IF s = <<>> THEN acc ELSE ParseDigits(Tail(s), 10 * acc + (Head(s) - 48))

\* strconv.ParseInt(s, 10, 64): the value, or -1 for a syntax error (the
\* ids of the model are never negative).
ParseInt(s) ==
    IF s # <<>> /\ \A i \in 1..Len(s) : IsDigit(s[i]) THEN ParseDigits(s, 0) ELSE -1

RECURSIVE NameLess(_, _)
\* Byte-wise string order, as sort.Slice in ioutil.ReadDir compares names.
NameLess(a, b) ==
    IF b = <<>> THEN FALSE
    ELSE IF a = <<>> THEN TRUE
    ELSE IF Head(a) # Head(b) THEN Head(a) < Head(b)
    ELSE NameLess(Tail(a), Tail(b))

RECURSIVE SortNames(_)
SortNames(S) ==
    IF S = {} THEN <<>>
    ELSE LET m == CHOOSE x \in S : \A y \in S \ {x} : NameLess(x, y)
         IN  <<m>> \o SortNames(S \ {m})

\* ioutil.ReadDir(q.directory): the names of the directory, sorted.
ReadDir(q) ==
    SortNames({DataName(id) : id \in DOMAIN data[q]} \cup {TempName(n) : n \in DOMAIN temps[q]}
              \cup junk[q])

\* -------------------------------------------------------- file contents
NoFiles == [i \in {} |-> 0]
WriteFile(d, id, c) == [i \in DOMAIN d \cup {id} |-> IF i = id THEN c ELSE d[i]]
RemoveFile(d, id) == [i \in DOMAIN d \ {id} |-> d[i]]

RECURSIVE InIdOrder(_)
\* The bytes of the data files d, lowest id first.
InIdOrder(d) ==
    IF DOMAIN d = {} THEN <<>>
    ELSE LET m == CHOOSE x \in DOMAIN d : \A y \in DOMAIN d : x <= y
         IN  <<d[m]>> \o InIdOrder(RemoveFile(d, m))

\* --------------------------------------------------------------- results
NoResult == "none"
Ok == "ok"
Failed == "error"
NotPeeked == [st |-> "none", v |-> 0]
ErrEmptyQueue == [st |-> "empty", v |-> 0]
Handle(c) == [st |-> "ok", v |-> c]
\* ctx.Err() of a cancelled context.
Cancelled == [st |-> "cancelled", v |-> 0]
\* The positions of the consumer inside Wait: about to Peek, blocked in select.
WaitPcs == {"wpeek", "select"}

\* The snapshot Steal's history keeps while no Steal is running.
NoSnapshot == [sdata |-> NoFiles, ddata |-> NoFiles, slen |-> 0, dlen |-> 0, scounter |-> 0, scur |-> 0]

\* The Steal thread is back in its caller with result r; its locals are dead.
StealReturns(r) ==
    /\ spc' = "idle"
    /\ sres' = r
    /\ sq' = "A" /\ sf' = "B" /\ spath' = "fast" /\ stmp' = 0 /\ sbytes' = 0 /\ scpath' = 0
    /\ sattached' = FALSE
    /\ spre' = NoSnapshot

\* ------------------------------------------------------- Open / recovery
RECURSIVE SyncScanSkip(_, _, _, _, _)
\* A variant of the loop that passes over a data name it cannot parse.
SyncScanSkip(list, i, mn, mx, rm) ==
    IF i > Len(list) THEN [err |-> FALSE, min |-> mn, max |-> mx, removed |-> rm]
    ELSE LET name == list[i] IN
         IF HasSuffix(name, dataSuffix) THEN
            LET id == ParseInt(SubSeq(name, 1, Len(name) - Len(dataSuffix))) IN
            IF id < 0 THEN SyncScanSkip(list, i + 1, mn, mx, rm)
            ELSE IF i = 1 THEN SyncScanSkip(list, i + 1, id, id, rm)
            ELSE IF id > mx THEN SyncScanSkip(list, i + 1, mn, id, rm)
            ELSE IF id < mn THEN SyncScanSkip(list, i + 1, id, mx, rm)
            ELSE SyncScanSkip(list, i + 1, mn, mx, rm)
         ELSE IF HasSuffix(name, tempSuffix) THEN SyncScanSkip(list, i + 1, mn, mx, rm \cup {name})
         ELSE SyncScanSkip(list, i + 1, mn, mx, rm)

RECURSIVE SyncScan(_, _, _, _, _)
\* The loop of synchronizeState over list[i..]; i is Go's index plus one.
SyncScan(list, i, mn, mx, rm) ==
    IF i > Len(list) THEN [err |-> FALSE, min |-> mn, max |-> mx, removed |-> rm]
    ELSE LET name == list[i] IN
         IF HasSuffix(name, dataSuffix) THEN
            LET id == ParseInt(SubSeq(name, 1, Len(name) - Len(dataSuffix))) IN
            IF id < 0 THEN [err |-> TRUE, min |-> mn, max |-> mx, removed |-> rm]
            ELSE IF i = 1 THEN SyncScan(list, i + 1, id, id, rm)
            ELSE IF id > mx THEN SyncScan(list, i + 1, mn, id, rm)
            ELSE IF id < mn THEN SyncScan(list, i + 1, id, mx, rm)
            ELSE SyncScan(list, i + 1, mn, mx, rm)
         ELSE IF HasSuffix(name, tempSuffix) THEN SyncScan(list, i + 1, mn, mx, rm \cup {name})
         ELSE SyncScan(list, i + 1, mn, mx, rm)

\* synchronizeState: var min, max int64 start at zero.
synchronizeState(q) == SyncScan(ReadDir(q), 1, 0, 0, {})

\* What synchronizeState stores in q.length.
SyncLength(r) == r.max - r.min

\* Open(directory): a new queue value whose fields synchronizeState sets.
\* When synchronizeState returns an error the caller has no queue: the
\* scratch files listed before the offending entry are gone, nothing else
\* has happened.
Open(q) ==
    /\ ~alive[q]
    /\ LET r == synchronizeState(q)
           left == {n \in DOMAIN temps[q] : TempName(n) \notin r.removed} IN
       /\ temps' = [temps EXCEPT ![q] = [n \in left |-> temps[q][n]]]
       /\ IF r.err
          THEN /\ ores' = [ores EXCEPT ![q] = Failed]
               /\ UNCHANGED <<alive, cur, counter, length, notify, hvars>>
          ELSE /\ ores' = [ores EXCEPT ![q] = Ok]
               /\ cur' = [cur EXCEPT ![q] = r.min]
               /\ counter' = [counter EXCEPT ![q] = r.max]
               /\ length' = [length EXCEPT ![q] = SyncLength(r)]
               /\ alive' = [alive EXCEPT ![q] = TRUE]
               /\ notify' = [notify EXCEPT ![q] = 0]
               /\ published' = [published EXCEPT ![q] = InIdOrder(data[q])]
               /\ consumed' = [consumed EXCEPT ![q] = <<>>]
               /\ orderly' = [orderly EXCEPT ![q] = TRUE]
    /\ UNCHANGED <<svars, data, pvars, cvars, junk, wvars>>

\* Something other than the queue writes a file with a ".data" name that is
\* no id into a directory no queue is open on.
Tamper(q) ==
    /\ ~alive[q]
    /\ \E n \in JunkNames \ junk[q] : junk' = [junk EXCEPT ![q] = junk[q] \cup {n}]
    /\ UNCHANGED <<qvars, pvars, cvars, hvars, svars, ores, wvars>>

\* The process stops (kill, power loss): every queue value and every thread is
\* gone, the directories stay as they are.
Crash ==
    /\ \E q \in Queues : alive[q]
    /\ alive' = [q \in Queues |-> FALSE]
    /\ cur' = [q \in Queues |-> 0]
    /\ counter' = [q \in Queues |-> 0]
    /\ length' = [q \in Queues |-> 0]
    /\ notify' = [q \in Queues |-> 0]
    /\ ppc' = [p \in Producers |-> "idle"]
    /\ pres' = [p \in Producers |-> NoResult]
    /\ cpc' = [q \in Queues |-> "idle"]
    /\ cpath' = [q \in Queues |-> 0]
    /\ peeked' = [q \in Queues |-> NotPeeked]
    /\ cres' = [q \in Queues |-> NoResult]
    /\ published' = [q \in Queues |-> <<>>]
    /\ consumed' = [q \in Queues |-> <<>>]
    /\ orderly' = [q \in Queues |-> TRUE]
    /\ pq' = [p \in Producers |-> "A"]
    /\ ptmp' = [p \in Producers |-> 0]
    /\ StealReturns(NoResult)
    /\ ores' = [q \in Queues |-> NoResult]
    /\ wpeeks' = [q \in Queues |-> 0]
    /\ wpend' = [q \in Queues |-> 0]
    /\ wquiet' = [q \in Queues |-> TRUE]
    /\ wfed' = [q \in Queues |-> FALSE]
    /\ UNCHANGED <<data, temps, junk>>

\* ------------------------------------------------------------ primitives
\* notifyUpdate: a non-blocking send on a channel of capacity 1.
notifyUpdate(q) ==
    /\ notify' = [notify EXCEPT ![q] = 1]
    /\ wquiet' = [wquiet EXCEPT ![q] = wquiet[q] /\ cpc[q] \notin WaitPcs]

\* A variant of attachToQueue that takes the next id before the rename, so
\* that a failed rename consumes it.
attachToQueueIdFirst(q, d, c, renamed) ==
    /\ counter' = [counter EXCEPT ![q] = counter[q] + 1]
    /\ data' = IF renamed THEN [d EXCEPT ![q] = WriteFile(d[q], counter[q], c)] ELSE data
    /\ wfed' = [wfed EXCEPT ![q] = wfed[q] \/ (renamed /\ cpc[q] \in WaitPcs)]

\* A variant of attachToQueue that does not advance the counter.
attachToQueueKeepId(q, d, c, renamed) ==
    IF renamed
    THEN /\ data' = [d EXCEPT ![q] = WriteFile(d[q], counter[q], c)]
         /\ wfed' = [wfed EXCEPT ![q] = wfed[q] \/ cpc[q] \in WaitPcs]
         /\ UNCHANGED counter
    ELSE UNCHANGED <<data, counter, wfed>>

\* attachToQueue under writer.lock: rename the file holding bytes c to
\* <counter>.data (os.Rename replaces an existing target), then advance the
\* counter; renamed = FALSE is a rename that returned an error.  d is the
\* data files of all directories once the old name is gone: data itself
\* when the old name is a scratch file.
attachToQueue(q, d, c, renamed) ==
    IF renamed
    THEN /\ data' = [d EXCEPT ![q] = WriteFile(d[q], counter[q], c)]
         /\ counter' = [counter EXCEPT ![q] = counter[q] + 1]
         /\ wfed' = [wfed EXCEPT ![q] = wfed[q] \/ cpc[q] \in WaitPcs]
    ELSE UNCHANGED <<data, counter, wfed>>

\* ------------------------------------------------------- Stream (and Put)
\* Publishes in flight toward the rename; bounds the ids the model uses.
InFlight(q) == Cardinality({p \in Producers : pq[p] = q /\ ppc[p] \in {"handler", "attach"}})

\* ioutil.TempFile(q.directory, "*.temp") returned an error.
StreamCreateFail(p, q) ==
    /\ alive[q] /\ ppc[p] = "idle"
    /\ pres' = [pres EXCEPT ![p] = Failed]
    /\ UNCHANGED <<evars, wvars, svars, qvars, ppc, pq, ptmp, cvars, hvars>>

\* ioutil.TempFile created an empty scratch file under an unused random name.
StreamCreate(p, q) ==
    /\ alive[q] /\ ppc[p] = "idle"
    /\ counter[q] + InFlight(q) < MaxId
    /\ \E n \in TempNames \ DOMAIN temps[q] :
          /\ temps' = [temps EXCEPT ![q] = WriteFile(temps[q], n, 0)]
          /\ ptmp' = [ptmp EXCEPT ![p] = n]
    /\ ppc' = [ppc EXCEPT ![p] = "handler"]
    /\ pq' = [pq EXCEPT ![p] = q]
    /\ pres' = [pres EXCEPT ![p] = NoResult]
    /\ UNCHANGED <<evars, wvars, svars, alive, data, cur, counter, length, notify, cvars, hvars>>

\* handler(tmp) wrote the bytes v and returned nil; tmp.Close().
StreamHandlerOk(p) ==
    /\ ppc[p] = "handler"
    /\ \E v \in Vals : temps' = [temps EXCEPT ![pq[p]] = WriteFile(temps[pq[p]], ptmp[p], v)]
    /\ ppc' = [ppc EXCEPT ![p] = "attach"]
    /\ UNCHANGED <<evars, wvars, svars, alive, data, cur, counter, length, notify, pq, ptmp, pres, cvars, hvars>>

\* handler(tmp) returned an error: the scratch file is removed.
StreamHandlerFail(p) ==
    /\ ppc[p] = "handler"
    /\ temps' = [temps EXCEPT ![pq[p]] = RemoveFile(temps[pq[p]], ptmp[p])]
    /\ ppc' = [ppc EXCEPT ![p] = "idle"]
    /\ pres' = [pres EXCEPT ![p] = Failed]
    /\ pq' = [pq EXCEPT ![p] = "A"]
    /\ ptmp' = [ptmp EXCEPT ![p] = 0]
    /\ UNCHANGED <<evars, wvars, svars, alive, data, cur, counter, length, notify, cvars, hvars>>

\* q.Attach(tmp.Name()): attachToQueue renamed the scratch file.
StreamAttachOk(p) ==
    /\ ppc[p] = "attach"
    /\ attachToQueue(pq[p], data, temps[pq[p]][ptmp[p]], TRUE)
    /\ temps' = [temps EXCEPT ![pq[p]] = RemoveFile(temps[pq[p]], ptmp[p])]
    /\ published' = [published EXCEPT ![pq[p]] = Append(published[pq[p]], temps[pq[p]][ptmp[p]])]
    /\ ppc' = [ppc EXCEPT ![p] = "count"]
    /\ ptmp' = [ptmp EXCEPT ![p] = 0]
    /\ UNCHANGED <<evars, wpeeks, wpend, wquiet, svars, alive, cur, length, notify, pq, pres, cvars, consumed, orderly>>

\* q.Attach(tmp.Name()): the rename failed; Stream removes the scratch file.
StreamAttachFail(p) ==
    /\ ppc[p] = "attach"
    /\ attachToQueue(pq[p], data, temps[pq[p]][ptmp[p]], FALSE)
    /\ temps' = [temps EXCEPT ![pq[p]] = RemoveFile(temps[pq[p]], ptmp[p])]
    /\ ppc' = [ppc EXCEPT ![p] = "idle"]
    /\ pres' = [pres EXCEPT ![p] = Failed]
    /\ pq' = [pq EXCEPT ![p] = "A"]
    /\ ptmp' = [ptmp EXCEPT ![p] = 0]
    /\ UNCHANGED <<evars, wpeeks, wpend, wquiet, svars, alive, cur, length, notify, cvars, hvars>>

\* Attach: atomic.AddInt64(&q.length, 1).
StreamCount(p) ==
    /\ ppc[p] = "count"
    /\ length' = [length EXCEPT ![pq[p]] = length[pq[p]] + 1]
    /\ ppc' = [ppc EXCEPT ![p] = "notify"]
    /\ UNCHANGED <<evars, wvars, svars, alive, data, temps, cur, counter, notify, pq, ptmp, pres, cvars, hvars>>

\* Attach: q.notifyUpdate(); Stream returns nil.
StreamNotify(p) ==
    /\ ppc[p] = "notify"
    /\ notifyUpdate(pq[p])
    /\ ppc' = [ppc EXCEPT ![p] = "idle"]
    /\ pres' = [pres EXCEPT ![p] = Ok]
    /\ pq' = [pq EXCEPT ![p] = "A"]
    /\ UNCHANGED <<evars, wpeeks, wpend, wfed, svars, alive, data, temps, cur, counter, length, ptmp, cvars, hvars>>

\* ----------------------------------------------------------- Peek, Commit
\* Peek under reader.lock: os.Open of <currentId>.data.
Peek(q) ==
    /\ alive[q] /\ cpc[q] = "idle"
    /\ peeked' = [peeked EXCEPT ![q] =
                    IF cur[q] \in DOMAIN data[q] THEN Handle(data[q][cur[q]]) ELSE ErrEmptyQueue]
    /\ UNCHANGED <<evars, wvars, svars, qvars, pvars, cpc, cpath, cres, hvars>>

\* Commit under reader.lock: take the path of the current id, advance the id.
CommitStart(q) ==
    /\ alive[q] /\ cpc[q] = "idle"
    /\ cur[q] < MaxId
    /\ cpath' = [cpath EXCEPT ![q] = cur[q]]
    /\ cur' = [cur EXCEPT ![q] = cur[q] + 1]
    /\ cpc' = [cpc EXCEPT ![q] = "len"]
    /\ cres' = [cres EXCEPT ![q] = NoResult]
    /\ peeked' = [peeked EXCEPT ![q] = NotPeeked]
    /\ consumed' = [consumed EXCEPT ![q] =
                      IF peeked[q].st = "ok" THEN Append(consumed[q], peeked[q].v) ELSE consumed[q]]
    /\ orderly' = [orderly EXCEPT ![q] = orderly[q] /\ peeked[q].st = "ok"]
    /\ UNCHANGED <<evars, wvars, svars, alive, data, temps, counter, length, notify, pvars, published>>

\* Commit: atomic.AddInt64(&q.length, -1).
CommitLen(q) ==
    /\ cpc[q] = "len"
    /\ length' = [length EXCEPT ![q] = length[q] - 1]
    /\ cpc' = [cpc EXCEPT ![q] = "notify"]
    /\ UNCHANGED <<evars, wvars, svars, alive, data, temps, cur, counter, notify, pvars, cpath, peeked, cres, hvars>>

\* Commit: q.notifyUpdate().
CommitNotify(q) ==
    /\ cpc[q] = "notify"
    /\ notifyUpdate(q)
    /\ cpc' = [cpc EXCEPT ![q] = "remove"]
    /\ UNCHANGED <<evars, wpeeks, wpend, wfed, svars, alive, data, temps, cur, counter, length, pvars, cpath, peeked, cres, hvars>>

\* A variant of Commit's result that returns every error of os.Remove.
CommitResultStrict(outcome) == IF outcome = "removed" THEN Ok ELSE Failed

\* What Commit returns for the outcome of os.Remove(path): "gone" is an
\* IsNotExist error, "removed" is success, "denied" any other error.
CommitResult(outcome) == IF outcome = "denied" THEN Failed ELSE Ok

\* A variant of Commit that takes the cursor back when os.Remove fails.
CommitRemoveRollback(q) ==
    /\ cpc[q] = "remove"
    /\ \E outcome \in (IF cpath[q] \in DOMAIN data[q] THEN {"removed", "denied"} ELSE {"gone"}) :
          /\ data' = [data EXCEPT ![q] =
                        IF outcome = "removed" THEN RemoveFile(data[q], cpath[q]) ELSE data[q]]
          /\ cres' = [cres EXCEPT ![q] = CommitResult(outcome)]
          /\ cur' = [cur EXCEPT ![q] = IF outcome = "denied" THEN cpath[q] ELSE cur[q]]
    /\ cpc' = [cpc EXCEPT ![q] = "idle"]
    /\ cpath' = [cpath EXCEPT ![q] = 0]
    /\ UNCHANGED <<evars, wvars, svars, alive, temps, counter, length, notify, pvars, peeked, hvars>>

\* Commit: os.Remove(path) and the returned error.
CommitRemove(q) ==
    /\ cpc[q] = "remove"
    /\ \E outcome \in (IF cpath[q] \in DOMAIN data[q] THEN {"removed", "denied"} ELSE {"gone"}) :
          /\ data' = [data EXCEPT ![q] =
                        IF outcome = "removed" THEN RemoveFile(data[q], cpath[q]) ELSE data[q]]
          /\ cres' = [cres EXCEPT ![q] = CommitResult(outcome)]
    /\ cpc' = [cpc EXCEPT ![q] = "idle"]
    /\ cpath' = [cpath EXCEPT ![q] = 0]
    /\ UNCHANGED <<evars, wvars, svars, alive, temps, cur, counter, length, notify, pvars, peeked, hvars>>

\* ------------------------------------------------------------------- Wait
\* Wait(ctx) is called by the consumer: the loop is about to call q.Peek().
WaitCall(q) ==
    /\ alive[q] /\ cpc[q] = "idle"
    /\ cpc' = [cpc EXCEPT ![q] = "wpeek"]
    /\ wpeeks' = [wpeeks EXCEPT ![q] = 0]
    /\ wpend' = [wpend EXCEPT ![q] = notify[q]]
    /\ wquiet' = [wquiet EXCEPT ![q] = TRUE]
    /\ wfed' = [wfed EXCEPT ![q] = FALSE]
    /\ UNCHANGED <<evars, svars, qvars, pvars, cpath, peeked, cres, hvars>>

\* Wait returns r to the consumer; the history of the call is reset.
WaitReturns(q, r) ==
    /\ peeked' = [peeked EXCEPT ![q] = r]
    /\ cpc' = [cpc EXCEPT ![q] = "idle"]
    /\ wpeeks' = [wpeeks EXCEPT ![q] = 0]
    /\ wpend' = [wpend EXCEPT ![q] = 0]
    /\ wquiet' = [wquiet EXCEPT ![q] = TRUE]
    /\ wfed' = [wfed EXCEPT ![q] = FALSE]

\* Wait: q.Peek().  A handle is returned; ErrEmptyQueue leads to the select.
\* (The guard on wpeeks never holds the loop back: it exceeds the signals
\* the capped ids allow.)
WaitPeek(q) ==
    /\ cpc[q] = "wpeek"
    /\ wpeeks[q] < MaxId + 3
    /\ IF cur[q] \in DOMAIN data[q]
       THEN WaitReturns(q, Handle(data[q][cur[q]]))
       ELSE /\ cpc' = [cpc EXCEPT ![q] = "select"]
            /\ wpeeks' = [wpeeks EXCEPT ![q] = wpeeks[q] + 1]
            /\ UNCHANGED <<peeked, wpend, wquiet, wfed>>
    /\ UNCHANGED <<evars, svars, qvars, pvars, cpath, cres, hvars>>

\* A variant of the select with a default case: the loop goes on without a
\* signal.
WaitRecvBusy(q) ==
    /\ cpc[q] = "select"
    /\ notify' = [notify EXCEPT ![q] = 0]
    /\ cpc' = [cpc EXCEPT ![q] = "wpeek"]
    /\ UNCHANGED <<evars, wvars, svars, alive, data, temps, cur, counter, length, pvars,
                   cpath, peeked, cres, hvars>>

\* Wait: select takes the signal buffered in q.notify; the loop goes on.
WaitRecv(q) ==
    /\ cpc[q] = "select"
    /\ notify[q] = 1
    /\ notify' = [notify EXCEPT ![q] = 0]
    /\ cpc' = [cpc EXCEPT ![q] = "wpeek"]
    /\ UNCHANGED <<evars, wvars, svars, alive, data, temps, cur, counter, length, pvars,
                   cpath, peeked, cres, hvars>>

\* A variant of the cancellation branch that returns the error of the last
\* Peek instead of ctx.Err().
WaitCancelEmpty(q) ==
    /\ cpc[q] = "select"
    /\ WaitReturns(q, ErrEmptyQueue)
    /\ UNCHANGED <<evars, svars, qvars, pvars, cpath, cres, hvars>>

\* Wait: the context is cancelled (at any time, by its owner or a deadline)
\* and select takes ctx.Done(): Wait returns ctx.Err().
WaitCancel(q) ==
    /\ cpc[q] = "select"
    /\ WaitReturns(q, Cancelled)
    /\ UNCHANGED <<evars, svars, qvars, pvars, cpath, cres, hvars>>

\* ------------------------------------------------------------------ Steal
\* q.Steal(f), the fast path: q.Attach(f.File()) renames f's current file
\* into q.  The rename fails when the file does not exist, and may fail when
\* it does (the directories are on different volumes); a source without
\* File() goes the same way, to the fallback.
StealFast(q, f) ==
    /\ spc = "idle" /\ q # f /\ alive[q] /\ alive[f]
    /\ counter[q] < MaxId /\ cur[f] < MaxId
    /\ sq' = q /\ sf' = f
    /\ spre' = [sdata |-> data[f], ddata |-> data[q], slen |-> length[f], dlen |-> length[q],
                scounter |-> counter[f], scur |-> cur[f]]
    /\ sres' = NoResult
    /\ \E renamed \in (IF cur[f] \in DOMAIN data[f] THEN {TRUE, FALSE} ELSE {FALSE}) :
          IF renamed
          THEN /\ attachToQueue(q, [data EXCEPT ![f] = RemoveFile(data[f], cur[f])],
                                data[f][cur[f]], TRUE)
               /\ sbytes' = data[f][cur[f]]
               /\ published' = [published EXCEPT ![q] = Append(published[q], data[f][cur[f]])]
               /\ spc' = "count" /\ spath' = "fast" /\ sattached' = TRUE
          ELSE /\ attachToQueue(q, data, 0, FALSE)
               /\ spc' = "create" /\ spath' = "copy" /\ sattached' = FALSE
               /\ UNCHANGED <<sbytes, published>>
    /\ UNCHANGED <<evars, wpeeks, wpend, wquiet, alive, temps, cur, length, notify, pvars, cvars, consumed, orderly, stmp, scpath>>

\* The fallback, q.Stream(handler): ioutil.TempFile.
StealCreate ==
    /\ spc = "create"
    /\ \E n \in TempNames \ DOMAIN temps[sq] :
          /\ temps' = [temps EXCEPT ![sq] = WriteFile(temps[sq], n, 0)]
          /\ stmp' = n
    /\ spc' = "handler"
    /\ UNCHANGED <<evars, wvars, alive, data, cur, counter, length, notify, pvars, cvars, hvars,
                   sq, sf, spath, sbytes, scpath, sattached, sres, spre>>

\* The fallback's ioutil.TempFile returned an error: Stream returns it, and
\* so does Steal.
StealCreateFail ==
    /\ spc = "create"
    /\ StealReturns(Failed)
    /\ UNCHANGED <<evars, wvars, alive, data, temps, cur, counter, length, notify, pvars, cvars, hvars>>

\* The fallback's handler: from.Peek() and io.Copy into the scratch file.
StealHandlerCopy ==
    /\ spc = "handler"
    /\ cur[sf] \in DOMAIN data[sf]
    /\ temps' = [temps EXCEPT ![sq] = WriteFile(temps[sq], stmp, data[sf][cur[sf]])]
    /\ sbytes' = data[sf][cur[sf]]
    /\ spc' = "commit"
    /\ UNCHANGED <<evars, wvars, alive, data, cur, counter, length, notify, pvars, cvars, hvars,
                   sq, sf, spath, stmp, scpath, sattached, sres, spre>>

\* A variant of the fallback on an empty source that leaves the scratch file.
StealHandlerEmptyLeak ==
    /\ spc = "handler"
    /\ cur[sf] \notin DOMAIN data[sf]
    /\ StealReturns("empty")
    /\ UNCHANGED <<evars, wvars, alive, data, temps, cur, counter, length, notify, pvars, cvars, hvars>>

\* The fallback's handler: from.Peek() returned ErrEmptyQueue; Stream removes
\* the scratch file and Steal returns the error.
StealHandlerEmpty ==
    /\ spc = "handler"
    /\ cur[sf] \notin DOMAIN data[sf]
    /\ temps' = [temps EXCEPT ![sq] = RemoveFile(temps[sq], stmp)]
    /\ StealReturns("empty")
    /\ UNCHANGED <<evars, wvars, alive, data, cur, counter, length, notify, pvars, cvars, hvars>>

\* from.Commit() under reader.lock (from the fast path after Attach, from the
\* fallback inside the handler).
StealCommitStart ==
    /\ spc = "commit"
    /\ scpath' = cur[sf]
    /\ cur' = [cur EXCEPT ![sf] = cur[sf] + 1]
    /\ consumed' = [consumed EXCEPT ![sf] = Append(consumed[sf], sbytes)]
    /\ spc' = "clen"
    /\ UNCHANGED <<evars, wvars, alive, data, temps, counter, length, notify, pvars, cvars, published, orderly,
                   sq, sf, spath, stmp, sbytes, sattached, sres, spre>>

\* from.Commit(): atomic.AddInt64(&q.length, -1).
StealCommitLen ==
    /\ spc = "clen"
    /\ length' = [length EXCEPT ![sf] = length[sf] - 1]
    /\ spc' = "cnotify"
    /\ UNCHANGED <<evars, wvars, alive, data, temps, cur, counter, notify, pvars, cvars, hvars,
                   sq, sf, spath, stmp, sbytes, scpath, sattached, sres, spre>>

\* from.Commit(): q.notifyUpdate().
StealCommitNotify ==
    /\ spc = "cnotify"
    /\ notifyUpdate(sf)
    /\ spc' = "cremove"
    /\ UNCHANGED <<evars, wpeeks, wpend, wfed, alive, data, temps, cur, counter, length, pvars, cvars, hvars,
                   sq, sf, spath, stmp, sbytes, scpath, sattached, sres, spre>>

\* from.Commit(): os.Remove(path).  On the fast path Steal returns Commit's
\* result.  In the fallback the handler returns it: on an error Stream removes
\* the scratch file, otherwise it goes on to attach it.
StealCommitRemove ==
    /\ spc = "cremove"
    /\ \E outcome \in (IF scpath \in DOMAIN data[sf] THEN {"removed", "denied"} ELSE {"gone"}) :
          /\ data' = [data EXCEPT ![sf] =
                        IF outcome = "removed" THEN RemoveFile(data[sf], scpath) ELSE data[sf]]
          /\ IF spath = "fast"
             THEN StealReturns(CommitResult(outcome)) /\ UNCHANGED temps
             ELSE IF CommitResult(outcome) = Ok
                  THEN /\ spc' = "attach" /\ scpath' = 0
                       /\ UNCHANGED <<temps, sq, sf, spath, stmp, sbytes, sattached, sres, spre>>
                  ELSE /\ temps' = [temps EXCEPT ![sq] = RemoveFile(temps[sq], stmp)]
                       /\ StealReturns(Failed)
    /\ UNCHANGED <<evars, wvars, alive, cur, counter, length, notify, pvars, cvars, hvars>>

\* The fallback's q.Attach(tmp.Name()); on a failed rename Stream removes the
\* scratch file and Steal returns the error.
StealAttach ==
    /\ spc = "attach"
    /\ \E renamed \in BOOLEAN :
          /\ attachToQueue(sq, data, temps[sq][stmp], renamed)
          /\ IF renamed
             THEN /\ spc' = "count" /\ sattached' = TRUE
                  /\ published' = [published EXCEPT ![sq] = Append(published[sq], temps[sq][stmp])]
                  /\ UNCHANGED <<sq, sf, spath, stmp, sbytes, scpath, sres, spre>>
             ELSE StealReturns(Failed) /\ UNCHANGED published
    /\ temps' = [temps EXCEPT ![sq] = RemoveFile(temps[sq], stmp)]
    /\ UNCHANGED <<evars, wpeeks, wpend, wquiet, alive, cur, length, notify, pvars, cvars, consumed, orderly>>

\* q.Attach: atomic.AddInt64(&q.length, 1).
StealCount ==
    /\ spc = "count"
    /\ length' = [length EXCEPT ![sq] = length[sq] + 1]
    /\ spc' = "notify"
    /\ UNCHANGED <<evars, wvars, alive, data, temps, cur, counter, notify, pvars, cvars, hvars,
                   sq, sf, spath, stmp, sbytes, scpath, sattached, sres, spre>>

\* q.Attach: q.notifyUpdate().  The fast path goes on to from.Commit(); the
\* fallback's Stream returns nil, and so does Steal.
StealNotify ==
    /\ spc = "notify"
    /\ notifyUpdate(sq)
    /\ IF spath = "fast"
       THEN /\ spc' = "commit"
            /\ UNCHANGED <<sq, sf, spath, stmp, sbytes, scpath, sattached, sres, spre>>
       ELSE StealReturns(Ok)
    /\ UNCHANGED <<evars, wpeeks, wpend, wfed, alive, data, temps, cur, counter, length, pvars, cvars, hvars>>

\* ------------------------------------------------------- specifications
Init ==
    /\ alive = [q \in Queues |-> FALSE]
    /\ data = [q \in Queues |-> NoFiles]
    /\ temps = [q \in Queues |-> NoFiles]
    /\ cur = [q \in Queues |-> 0]
    /\ counter = [q \in Queues |-> 0]
    /\ length = [q \in Queues |-> 0]
    /\ notify = [q \in Queues |-> 0]
    /\ ppc = [p \in Producers |-> "idle"]
    /\ pq = [p \in Producers |-> "A"]
    /\ ptmp = [p \in Producers |-> 0]
    /\ pres = [p \in Producers |-> NoResult]
    /\ cpc = [q \in Queues |-> "idle"]
    /\ cpath = [q \in Queues |-> 0]
    /\ peeked = [q \in Queues |-> NotPeeked]
    /\ cres = [q \in Queues |-> NoResult]
    /\ published = [q \in Queues |-> <<>>]
    /\ consumed = [q \in Queues |-> <<>>]
    /\ orderly = [q \in Queues |-> TRUE]
    /\ spc = "idle" /\ sres = NoResult
    /\ sq = "A" /\ sf = "B" /\ spath = "fast" /\ stmp = 0 /\ sbytes = 0 /\ scpath = 0
    /\ sattached = FALSE
    /\ spre = NoSnapshot
    /\ junk = [q \in Queues |-> {}]
    /\ ores = [q \in Queues |-> NoResult]
    /\ wpeeks = [q \in Queues |-> 0]
    /\ wpend = [q \in Queues |-> 0]
    /\ wquiet = [q \in Queues |-> TRUE]
    /\ wfed = [q \in Queues |-> FALSE]

\* One queue, on directory A: concurrent producers, one consumer, crashes.
Next ==
    \/ Open("A")
    \/ Crash
    \/ \E p \in Producers : StreamCreateFail(p, "A")
    \/ \E p \in Producers : StreamCreate(p, "A")
    \/ \E p \in Producers : StreamHandlerOk(p)
    \/ \E p \in Producers : StreamHandlerFail(p)
    \/ \E p \in Producers : StreamAttachOk(p)
    \/ \E p \in Producers : StreamAttachFail(p)
    \/ \E p \in Producers : StreamCount(p)
    \/ \E p \in Producers : StreamNotify(p)
    \/ Peek("A")
    \/ CommitStart("A")
    \/ CommitLen("A")
    \/ CommitNotify("A")
    \/ CommitRemove("A")

Spec == Init /\ [][Next]_vars

\* No producer and no consumer is inside a call.
OthersIdle == (\A p \in Producers : ppc[p] = "idle") /\ (\A q \in Queues : cpc[q] = "idle")

\* Two queues, on directories A and B, used by one client thread that calls
\* Open, Put and Steal: a call is made when the previous one has returned.  A
\* crash may come at any step.  (The source's Commit runs inside Steal.)
NextSteal ==
    \/ \E q \in Queues : Open(q)
    \/ Crash
    \/ OthersIdle /\ spc = "idle" /\ \E q \in Queues : StreamCreate(1, q)
    \/ StreamHandlerOk(1)
    \/ StreamAttachOk(1)
    \/ StreamCount(1)
    \/ StreamNotify(1)
    \/ OthersIdle /\ \E q, f \in Queues : StealFast(q, f)
    \/ StealCreate
    \/ StealCreateFail
    \/ StealHandlerCopy
    \/ StealHandlerEmpty
    \/ StealCommitStart
    \/ StealCommitLen
    \/ StealCommitNotify
    \/ StealCommitRemove
    \/ StealAttach
    \/ StealCount
    \/ StealNotify

SpecSteal == Init /\ [][NextSteal]_vars

\* The same client during one run of the process: no crash, each directory
\* opened once.
NextStealRun ==
    \/ \E q \in Queues : Open(q)
    \/ OthersIdle /\ spc = "idle" /\ \E q \in Queues : StreamCreate(1, q)
    \/ StreamHandlerOk(1)
    \/ StreamAttachOk(1)
    \/ StreamCount(1)
    \/ StreamNotify(1)
    \/ OthersIdle /\ \E q, f \in Queues : StealFast(q, f)
    \/ StealCreate
    \/ StealCreateFail
    \/ StealHandlerCopy
    \/ StealHandlerEmpty
    \/ StealCommitStart
    \/ StealCommitLen
    \/ StealCommitNotify
    \/ StealCommitRemove
    \/ StealAttach
    \/ StealCount
    \/ StealNotify

SpecStealRun == Init /\ [][NextStealRun]_vars

\* One queue, on directory A, with one producer thread and a consumer that
\* calls Peek, Commit and Wait, one call after the other; crashes.
NextWait ==
    \/ Open("A")
    \/ Crash
    \/ StreamCreate(1, "A")
    \/ StreamHandlerOk(1)
    \/ StreamAttachOk(1)
    \/ StreamCount(1)
    \/ StreamNotify(1)
    \/ Peek("A")
    \/ CommitStart("A")
    \/ CommitLen("A")
    \/ CommitNotify("A")
    \/ CommitRemove("A")
    \/ WaitCall("A")
    \/ WaitPeek("A")
    \/ WaitRecv("A")
    \/ WaitCancel("A")

SpecWait == Init /\ [][NextWait]_vars

\* One directory, A, between runs of the process: a producer publishes, the
\* process stops at any step, something else drops ".data" names that are no
\* ids into the directory, and Open is called again.
NextOpen ==
    \/ Open("A")
    \/ Crash
    \/ Tamper("A")
    \/ StreamCreate(1, "A")
    \/ StreamHandlerOk(1)
    \/ StreamAttachOk(1)
    \/ StreamCount(1)
    \/ StreamNotify(1)
    \/ Peek("A")
    \/ CommitStart("A")
    \/ CommitLen("A")
    \/ CommitNotify("A")
    \/ CommitRemove("A")

SpecOpen == Init /\ [][NextOpen]_vars

\* ---------------------------------------------------------------- claims
IsPrefix(s, t) == Len(s) <= Len(t) /\ SubSeq(t, 1, Len(s)) = s
MinOf(S) == CHOOSE x \in S : \A y \in S : x <= y
MaxOf(S) == CHOOSE x \in S : \A y \in S : x >= y

\* No operation is in progress on queue q.
Quiescent(q) == alive[q] /\ cpc[q] = "idle" /\ \A p \in Producers : ppc[p] = "idle"
\* The data files the consumer has not committed.
Pending(q) == {id \in DOMAIN data[q] : id >= cur[q]}
\* This step is Open(q).
Opens(q) == ~alive[q] /\ alive'[q]

\* C1: with a consumer that commits only after a successful Peek, the records
\* returned by the Peek+Commit pairs are the published records (those on disk
\* at Open, by id, then the attached ones in attach order), each once, in
\* order; and while a published record has not been returned and no operation
\* is in progress, Peek returns a record.
C1_FifoOrder ==
    \A q \in Queues :
        (alive[q] /\ orderly[q]) =>
            /\ IsPrefix(consumed[q], published[q])
            /\ (Quiescent(q) /\ Len(consumed[q]) < Len(published[q])) => cur[q] \in DOMAIN data[q]

\* C2: with no operation in progress (and no Commit issued on an empty queue),
\* Len() is the number of published, uncommitted records.
C2_LenCountsPending ==
    \A q \in Queues : (Quiescent(q) /\ orderly[q]) => length[q] = Cardinality(Pending(q))

\* C3: with no operation in progress (and no Commit issued on an empty queue),
\* Len() = 0 exactly when Peek would return ErrEmptyQueue.
C3_LenZeroIffEmpty ==
    \A q \in Queues :
        (Quiescent(q) /\ orderly[q]) => ((length[q] = 0) <=> (cur[q] \notin DOMAIN data[q]))

\* C4: no step changes the bytes of a data file that exists before and after it.
C4_PublishedImmutable ==
    [][\A q \in Queues : \A id \in DOMAIN data[q] \cap DOMAIN data'[q] :
          data'[q][id] = data[q][id]]_vars

\* C5: Open on a directory holding N data files and a scratch file yields
\* Len() = N.
C5_RecoveryLen ==
    [][\A q \in Queues :
          (Opens(q) /\ DOMAIN temps[q] # {}) => length'[q] = Cardinality(DOMAIN data[q])]_vars

\* C6: Open on a directory holding data files with ids S sets the read cursor
\* to min(S) and the write counter to max(S).
C6_RecoveryWatermarks ==
    [][\A q \in Queues :
          (Opens(q) /\ DOMAIN data[q] # {}) =>
              /\ cur'[q] = MinOf(DOMAIN data[q])
              /\ counter'[q] = MaxOf(DOMAIN data[q])]_vars

\* C9: a Commit whose os.Remove finds the file of the committed id already
\* gone returns no error.
C9_IdempotentCommit ==
    [][\A q \in Queues :
          (cpc[q] = "remove" /\ cpc'[q] = "idle" /\ alive'[q] /\ cpath[q] \notin DOMAIN data[q])
              => cres'[q] = Ok]_vars

\* C9 witness: a Commit on a queue that never held a record has returned nil.
C9_Witness ==
    alive["A"] /\ cpc["A"] = "idle" /\ cres["A"] = Ok /\ published["A"] = <<>> /\ cur["A"] = 1

\* The steps of producer p that a failing Stream consists of: the scratch file
\* is created, written, and the call returns an error.
FailingStreamStep(p) ==
    /\ alive'[pq[p]]
    /\ \/ ppc[p] = "idle" /\ ppc'[p] = "handler"
       \/ ppc[p] = "handler" /\ ppc'[p] \in {"attach", "idle"}
       \/ ppc[p] = "attach" /\ ppc'[p] = "idle"

\* C10: a Stream that returns an error has changed no data file, write counter,
\* Len(), read cursor or signal, and has removed its scratch file; an error is
\* returned only before or at the rename.
C10_FailedStreamNoTrace ==
    [][\A p \in Producers :
          /\ FailingStreamStep(p) =>
                /\ UNCHANGED <<data, counter, length, cur, notify>>
                /\ ppc'[p] = "idle" => (pres'[p] = Failed /\ ptmp[p] \notin DOMAIN temps'[pq[p]])
          /\ (pres'[p] = Failed /\ pres[p] # Failed) => ppc[p] \in {"idle", "handler", "attach"}]_vars

\* C10 witness: a Stream has returned an error on a queue that holds a record
\* and has an id assigned.
C10_Witness ==
    \E p \in Producers :
        /\ pres[p] = Failed /\ ppc[p] = "idle" /\ alive["A"]
        /\ counter["A"] = 1 /\ DOMAIN data["A"] = {0} /\ DOMAIN temps["A"] = {}

\* C7: while Steal runs on a source that held a record, the source's cursor has
\* advanced or the record's file is gone from the source only if the
\* destination's Attach has succeeded.
C7_NoRemoveBeforeAttach ==
    (/\ spc # "idle"
     /\ spre.scur \in DOMAIN spre.sdata
     /\ (cur[sf] > spre.scur \/ spre.scur \notin DOMAIN data[sf]))
        => sattached

\* This step is Steal returning nil.
StealSucceeds == spc # "idle" /\ spc' = "idle" /\ sres' = Ok

\* C8: a successful Steal from a source whose cursor is on a record takes one
\* off the source's Len() and adds one to the destination's, moves the
\* source's cursor to the next id, leaves the source's write counter and other
\* files alone, and adds the record's bytes to the destination under an id
\* above all the ids the destination held, whose files are unchanged.
C8_StealMovesOldest ==
    [][(StealSucceeds /\ spre.scur \in DOMAIN spre.sdata) =>
          /\ length'[sf] = spre.slen - 1
          /\ length'[sq] = spre.dlen + 1
          /\ cur'[sf] = spre.scur + 1
          /\ counter'[sf] = spre.scounter
          /\ data'[sf] = RemoveFile(spre.sdata, spre.scur)
          /\ \E id \in DOMAIN data'[sq] :
                /\ \A j \in DOMAIN spre.ddata : j < id
                /\ data'[sq][id] = spre.sdata[spre.scur]
                /\ RemoveFile(data'[sq], id) = spre.ddata]_vars

\* C11: a Peek changes no data file, cursor, write counter or Len(), and a
\* Peek that follows a successful Peek with no Commit in between returns the
\* same record with the same bytes.
C11_PeekDoesNotConsume ==
    [][\A q \in Queues :
          (alive[q] /\ alive'[q] /\ cpc[q] = "idle" /\ cpc'[q] = "idle" /\ peeked'[q] # peeked[q]) =>
              /\ UNCHANGED <<data, cur, counter, length>>
              /\ peeked[q].st # "ok"]_vars

\* C12: the consumer is never left blocked in Wait, with no signal buffered
\* and no producer inside a call, after a Put or Stream has completed during
\* that Wait (the consumer never having issued a Commit on an empty queue):
\* from such a state Wait returns no handle unless something more is
\* published.
C12_NoLostWakeup ==
    \A q \in Queues :
        ~(/\ alive[q] /\ orderly[q]
          /\ cpc[q] = "select" /\ notify[q] = 0
          /\ wfed[q]
          /\ \A p \in Producers : ppc[p] = "idle")

\* This step is a step of the consumer's Wait on q.
WaitStep(q) == alive'[q] /\ cpc'[q] # cpc[q] /\ (cpc[q] \in WaitPcs \/ cpc'[q] \in WaitPcs)

\* C13: no step of Wait changes a data file, a scratch file, the cursor, the
\* write counter or Len(); Wait returns from its select only with the
\* context's cancellation error, and while the cursor is on no record it
\* returns nothing else.
C13_WaitCancellation ==
    [][\A q \in Queues :
          WaitStep(q) =>
              /\ UNCHANGED <<data, temps, cur, counter, length>>
              /\ (cpc[q] = "select" /\ cpc'[q] = "idle") => peeked'[q] = Cancelled
              /\ (cpc'[q] = "idle" /\ cur[q] \notin DOMAIN data[q]) => peeked'[q] = Cancelled]_vars

\* C13 witness: Wait has returned the cancellation error on a queue whose one
\* record was published and committed before.
C13_Witness ==
    /\ alive["A"] /\ cpc["A"] = "idle" /\ peeked["A"] = Cancelled
    /\ cur["A"] = 1 /\ counter["A"] = 1 /\ length["A"] = 0 /\ DOMAIN data["A"] = {}

\* This step is a call of Open on directory q that returns.
OpenReturns(q) == ~alive[q] /\ ores'[q] # ores[q] /\ ores'[q] # NoResult

\* C14: Open on a directory that holds a name ending in ".data" whose prefix
\* is no decimal number returns an error and yields no queue, wherever the
\* name stands in the listing, and removes or renames no data file (the
\* offending one included): only scratch files may go.
C14_CorruptDirectoryFatal ==
    [][\A q \in Queues :
          (OpenReturns(q) /\ junk[q] # {}) =>
              /\ ores'[q] = Failed /\ ~alive'[q]
              /\ data' = data /\ junk' = junk
              /\ DOMAIN temps'[q] \subseteq DOMAIN temps[q]]_vars

\* C14 witness: Open has failed on a directory in which the only offending
\* name is listed last, after a data file and a scratch file, and the scratch
\* file is gone.
C14_Witness ==
    /\ ores["A"] = Failed /\ ~alive["A"]
    /\ junk["A"] = {<<120>> \o dataSuffix}
    /\ DOMAIN data["A"] = {0, 1} /\ DOMAIN temps["A"] = {}

\* C15: the read cursor of an open queue never exceeds the write counter, the
\* next id to be assigned.
C15_CursorBound == \A q \in Queues : alive[q] => cur[q] <= counter[q]

\* C16: a Commit whose os.Remove leaves the file in place returns the error
\* with the cursor one past the id of that file; the cursor of an open queue
\* never moves back, and Peek returns the file of the cursor's id only: no
\* later Peek returns the record the failed Commit passed over.
C16_CommitFailForward ==
    [][\A q \in Queues :
          /\ (cpc[q] = "remove" /\ cpc'[q] = "idle" /\ alive'[q] /\ cpath[q] \in DOMAIN data'[q])
                => (cres'[q] = Failed /\ cur'[q] = cpath[q] + 1)
          /\ (alive[q] /\ alive'[q]) => cur'[q] >= cur[q]
          /\ (alive'[q] /\ peeked'[q] # peeked[q] /\ peeked'[q].st = "ok")
                => (cur[q] \in DOMAIN data[q] /\ peeked'[q].v = data[q][cur[q]])]_vars

\* C16 witness: on a queue opened on an empty directory the Commit of record
\* 0 has returned an error, the file is still there, and the Peek after it
\* has returned ErrEmptyQueue.
C16_Witness ==
    /\ alive["A"] /\ cpc["A"] = "idle" /\ cres["A"] = Failed
    /\ cur["A"] = 1 /\ counter["A"] = 1 /\ DOMAIN data["A"] = {0}
    /\ Len(published["A"]) = 1 /\ consumed["A"] = published["A"]
    /\ peeked["A"] = ErrEmptyQueue

\* C17: on an open queue every step is either no attach, and then changes
\* neither the write counter nor the set of data file ids, or one successful
\* attach, which puts the record under the id the counter held and advances
\* the counter by one: the ids of the successful attaches are distinct and
\* increase in attach order, and a failed rename consumes none.
C17_SerializedIds ==
    [][\A q \in Queues :
          (alive[q] /\ alive'[q]) =>
              LET n == Len(published'[q]) - Len(published[q]) IN
              /\ n \in {0, 1}
              /\ counter'[q] = counter[q] + n
              /\ n = 1 => /\ counter[q] \in DOMAIN data'[q]
                          /\ data'[q][counter[q]] = published'[q][Len(published'[q])]
              /\ n = 0 => DOMAIN data'[q] \subseteq DOMAIN data[q]]_vars

\* C17 witness: two producers have both attached, one as id 0 and one as id
\* 1, and neither has returned yet.
C17_Witness ==
    /\ alive["A"] /\ counter["A"] = 2 /\ DOMAIN data["A"] = {0, 1}
    /\ ppc[1] \in {"count", "notify"} /\ ppc[2] \in {"count", "notify"}
    /\ published["A"] = <<data["A"][0], data["A"][1]>>

\* C18: while no notifyUpdate has run since Wait was called (no Put, Steal or
\* Commit has signalled), Wait has made at most one Peek attempt, plus one if
\* a signal was buffered when it was called: at most two; and once it has
\* made them it sits in the select with no signal to take.
C18_WaitDoesNotBusyPoll ==
    \A q \in Queues :
        (alive[q] /\ cpc[q] \in WaitPcs /\ wquiet[q]) =>
            /\ wpeeks[q] <= 1 + wpend[q]
            /\ wpeeks[q] <= 2
            /\ wpeeks[q] = 1 + wpend[q] => (cpc[q] = "select" /\ notify[q] = 0)

\* C18 witness: Wait, called on an empty queue with a signal buffered, has
\* made its two Peek attempts and is blocked.
C18_Witness ==
    /\ alive["A"] /\ cpc["A"] = "select" /\ wquiet["A"]
    /\ wpend["A"] = 1 /\ wpeeks["A"] = 2 /\ notify["A"] = 0
    /\ DOMAIN data["A"] = {}

\* C19: every attach on an open queue puts the record under an id that is
\* not below the read cursor.
C19_NoUnreachableRecord ==
    [][\A q \in Queues :
          (alive[q] /\ alive'[q] /\ Len(published'[q]) > Len(published[q]))
              => counter[q] >= cur[q]]_vars

\* This step is a step of a Steal that was called with the source's cursor on
\* no record (the call itself included), and the process goes on.
EmptyStealStep ==
    /\ \E q \in Queues : alive'[q]
    /\ \/ spc = "idle" /\ spc' # "idle" /\ cur[sf'] \notin DOMAIN data[sf']
       \/ spc # "idle" /\ spre.scur \notin DOMAIN spre.sdata

\* C20 as stated: a Steal from a source with no record changes no data file,
\* cursor, write counter or Len() of either queue, and returns ErrEmptyQueue
\* with no scratch file left in the destination.
C20_StealFromEmpty ==
    [][EmptyStealStep =>
          /\ UNCHANGED <<data, cur, counter, length>>
          /\ spc' = "idle" => (sres' = "empty" /\ DOMAIN temps'[sq] = {})]_vars

\* C20 amended: a Steal from a source with no record changes no data file,
\* cursor, write counter or Len() of either queue, and returns an error with
\* no scratch file left in the destination: ErrEmptyQueue, or the error of
\* ioutil.TempFile when the scratch file could not be created.
C20_StealFromEmptyAmended ==
    [][EmptyStealStep =>
          /\ UNCHANGED <<data, cur, counter, length>>
          /\ spc' = "idle" => (sres' \in {"empty", Failed} /\ DOMAIN temps'[sq] = {})]_vars

\* C20 witness: Steal has returned ErrEmptyQueue to a destination B that
\* holds a record, the source A being empty.
C20_Witness ==
    /\ spc = "idle" /\ sres = "empty" /\ alive["A"] /\ alive["B"]
    /\ DOMAIN data["A"] = {} /\ cur["A"] = 0 /\ counter["A"] = 0
    /\ DOMAIN data["B"] = {0} /\ cur["B"] = 0 /\ counter["B"] = 1
    /\ DOMAIN temps["A"] = {} /\ DOMAIN temps["B"] = {}

====
